---- MODULE Spec2Model ----
(***************************************************************************)
(* PoolManager (libpoolprotocols/PoolManager.cpp): the pool-connection     *)
(* orchestrator.  The control loop (workLoop) and stop() run on their own  *)
(* threads and are modelled statement block by statement block; the        *)
(* handlers subscribed to the client and to the farm run on the            *)
(* collaborators' threads, one handler invocation per action.              *)
(*                                                                         *)
(* PoolClient and Farm are collaborators whose code is outside the source  *)
(* file: the model keeps only what the orchestrator observes of them       *)
(* (isConnected, isPendingState, isMining) and the calls it makes on them. *)
(***************************************************************************)
EXTENDS Integers, Sequences, FiniteSets, TLC

\* ------------------------------------------------------------------ bounds

\* Largest configured m_maxConnectionAttempts explored.
MaxTries == 2
\* m_hashrateReportingTime, the report interval in ticks, as explored.
HashrateReportingTime == 1
\* The steady clock runs from 0 to MaxTime.
MaxTime == 4
\* Clock units per millisecond (duration_cast<milliseconds> truncates).
TicksPerMs == 2
\* Work packages forwarded to the farm per run.
MaxForwarded == 6
\* Job identifiers 1..MaxJobs.
MaxJobs == 5
\* Hashrates 0..MaxRate (and a few wider ones, see Rates).
MaxRate == 300
\* Difficulties of up to MaxDigits base-1000 digits.
MaxDigits == 6
\* Endpoints the host process adds to the list at most.
MaxConnections == 2
\* The active index is followed up to MaxIndex.
MaxIndex == 3

\* ------------------------------------------------------- program constants

\* for (auto i = 4; --i; sleep 1s): the grace loop's start value.
GraceStart == 4
\* while (m_headers.size() > 4) m_headers.pop_front();
MaxHeaders == 4
\* ss << std::setw(64) << std::setfill('0') << res;
HashrateWidth == 64

SentinelHost == "exit"

\* ------------------------------------------------------------------- state

VARIABLES
    \* PoolManager fields
    m_connections,                \* std::vector<URI>
    m_activeConnectionIdx,        \* unsigned, 0-based
    m_connectionAttempt,          \* unsigned
    m_maxConnectionAttempts,      \* unsigned, from the constructor
    m_minerType,                  \* MinerType, from the constructor
    m_running,                    \* std::atomic<bool>
    m_headers,                    \* std::list<h256>, recent job headers
    m_lastBoundary,               \* h256
    m_submit_time,                \* steady_clock::time_point
    m_hashrateReportingTimePassed,
    \* positions of the two procedures that run on their own threads
    loopPc,                       \* workLoop
    grace_i,                      \* the grace loop's i
    stopPc,                       \* stop()
    \* what the orchestrator observes of its collaborators
    clientState,                  \* Disconnected, Connecting, Connected, Disconnecting
    clientConn,                   \* the endpoint last given to setConnection
    mining,                       \* m_farm.isMining()
    now,                          \* steady_clock::now()
    \* outputs: the calls made on the collaborators
    calls,                        \* calls and log lines of the latest step, in order
    setWorkLog,                   \* headers passed to m_farm.setWork, in order
    dialLog,                      \* the observers' log: the index dialed by each connect(), in order
    submittedHashrate,            \* the string last passed to submitHashrate
    reportedRate,                 \* mp.rate() of that report
    latency,                      \* ms.count() of the latest accept/reject
    lastSubmitAt,                 \* clock value at the latest submitSolution call
    fmtIn,                        \* diffToDisplay's latest argument
    fmtOut                        \* diffToDisplay's latest result

idxVars == <<m_activeConnectionIdx, m_connectionAttempt>>

hashVars == <<m_hashrateReportingTimePassed, submittedHashrate, reportedRate>>

cfgVars == <<m_connections, m_maxConnectionAttempts, m_minerType>>

workVars == <<m_headers, m_lastBoundary, setWorkLog>>

submitVars == <<m_submit_time, latency, lastSubmitAt>>

fmtVars == <<fmtIn, fmtOut>>

vars == <<idxVars, dialLog, hashVars, cfgVars, workVars, submitVars, fmtVars, m_running,
          loopPc, grace_i, stopPc, clientState, clientConn, mining, now, calls>>

\* ----------------------------------------------------------------- helpers

Range(s) == {s[i] : i \in 1..Len(s)}

Min(a, b) == IF a < b THEN a ELSE b

Max(a, b) == IF a < b THEN b ELSE a

\* URI: host and port.
URI(h, p) == [host |-> h, port |-> p]

Host(u) == u.host

Port(u) == u.port

PoolA == URI("a", 1)

PoolB == URI("b", 2)

Exit == URI(SentinelHost, 0)

NoConn == URI("", 0)

\* The endpoint lists the host process may have added before start().
ConnectionLists ==
    { <<>>, <<PoolA>>, <<PoolA, PoolB>>, <<PoolA, Exit>>, <<PoolA, PoolB, Exit>>,
      <<Exit>>, <<Exit, PoolA>> }

MinerTypes == {"CL", "CUDA", "Mixed"}

\* m_connections[m_activeConnectionIdx]
Current == m_connections[m_activeConnectionIdx + 1]

\* The endpoints an addConnection may add.
Endpoints == {PoolA, PoolB, Exit}

\* What a read of m_connections[m_activeConnectionIdx] can give: the element,
\* or, with the index past the end of the vector (operator[] is not
\* checked), any value at all.
ActiveConnection ==
    IF m_activeConnectionIdx < Len(m_connections)
    THEN {Current}
    ELSE Endpoints \cup {NoConn}

\* The connect() calls logged per run: more than any endpoint list needs to
\* be gone through once.
MaxDialLog == 3 * MaxTries + 1

\* ------------------------------------------------------- Hashrate encoding

HexDigits == <<"0", "1", "2", "3", "4", "5", "6", "7", "8", "9",
               "a", "b", "c", "d", "e", "f">>

RECURSIVE ByteCount(_)
\* toCompactBigEndian: for (T v = _val; v; ++i, v >>= 8) {}
ByteCount(v) == IF v = 0 THEN 0 ELSE 1 + ByteCount(v \div 256)

RECURSIVE Pow(_, _)
Pow(b, e) == IF e = 0 THEN 1 ELSE b * Pow(b, e - 1)

\* toCompactBigEndian(_val, _min): max(_min, byte count) bytes, big-endian.
toCompactBigEndian(v, min) ==
    LET n == Max(min, ByteCount(v))
    IN  [k \in 1..n |-> (v \div Pow(256, n - k)) % 256]

\* toHex: two lower-case hexadecimal characters per byte.
toHex(bytes) ==
    [k \in 1..(2 * Len(bytes)) |->
        LET b == bytes[(k + 1) \div 2]
        IN  IF k % 2 = 1 THEN HexDigits[(b \div 16) + 1] ELSE HexDigits[(b % 16) + 1]]

\* ss << std::setw(w) << std::setfill('0') << s: pads on the left, never cuts.
SetwZero(s, w) ==
    IF Len(s) >= w THEN s ELSE [k \in 1..(w - Len(s)) |-> "0"] \o s

\* HashrateString that drops the first character whatever it is.
HashrateString_AlwaysStrips(rate) ==
    LET h == toHex(toCompactBigEndian(rate, 1))
    IN  <<"0", "x">> \o SetwZero(Tail(h), HashrateWidth)

\* workLoop, lines 246-254: the string handed to submitHashrate.
HashrateString(rate) ==
    LET h == toHex(toCompactBigEndian(rate, 1))
        res == IF h[1] # "0" THEN h ELSE Tail(h)
    IN  <<"0", "x">> \o SetwZero(res, HashrateWidth)

\* ------------------------------------------------------ Difficulty display
\* A difficulty is held as its base-1000 digits, most significant first and
\* not zero; diff / 1000.0 taken i times leaves the last i digits behind the
\* point.  The double's rounding error is not modelled.

UnitNames == <<"hashes", "kilohashes", "megahashes", "gigahashes", "terahashes",
               "petahashes">>

\* diff > 1000.0, for diff = d / 1000^i
Gt1000(d, i) ==
    LET m == Len(d) - i
    IN  \/ m >= 3
        \/ /\ m = 2
           /\ \/ d[1] > 1
              \/ d[2] > 0
              \/ \E j \in 3..Len(d) : d[j] > 0

RECURSIVE ScaleUps(_, _)
\* while ((diff > 1000.0) && (i < ((sizeof(k) / sizeof(char *)) - 2))) { i++; diff /= 1000.0; }
ScaleUps(d, i) ==
    IF Gt1000(d, i) /\ i < Len(UnitNames) - 2 THEN ScaleUps(d, i + 1) ELSE i

RECURSIVE Incr(_)
\* the integer part plus one (a carry out of the rounded fraction)
Incr(d) ==
    IF Len(d) = 0 THEN <<1>>
    ELSE IF d[Len(d)] < 999 THEN [d EXCEPT ![Len(d)] = @ + 1]
    ELSE Incr(SubSeq(d, 1, Len(d) - 1)) \o <<0>>

\* diffToDisplay: fixed, setprecision(2), then the unit's name.
diffToDisplay(d) ==
    LET i == ScaleUps(d, 0)
        m == Len(d) - i
        ip == SubSeq(d, 1, m)
        f1 == IF i = 0 THEN 0 ELSE d[m + 1]
        hundredths == (f1 \div 10) + (IF f1 % 10 >= 5 THEN 1 ELSE 0)
    IN  [whole |-> IF hundredths = 100 THEN Incr(ip) ELSE ip,
         cents |-> hundredths % 100,
         unit  |-> UnitNames[i + 1]]

\* ------------------------------------------------------------ construction

NothingFormatted == [whole |-> <<>>, cents |-> 0, unit |-> ""]

\* The constructor, with the fields' in-class initial values, after the host
\* process has added its endpoints (addConnection) and before start().
Init ==
    /\ m_connections \in ConnectionLists
    /\ m_maxConnectionAttempts \in 1..MaxTries
    /\ m_minerType \in MinerTypes
    /\ m_activeConnectionIdx = 0
    /\ m_connectionAttempt = 0
    /\ m_running = FALSE
    /\ m_headers = <<>>
    /\ m_lastBoundary = 0
    /\ m_submit_time = 0
    /\ m_hashrateReportingTimePassed = 0
    /\ loopPc = "idle"
    /\ grace_i = 0
    /\ stopPc = "idle"
    /\ clientState = "Disconnected"
    /\ clientConn = NoConn
    /\ mining = FALSE
    /\ now = 0
    /\ calls = <<>>
    /\ setWorkLog = <<>>
    /\ dialLog = <<>>
    /\ submittedHashrate = <<>>
    /\ reportedRate = 0
    /\ latency = 0
    /\ lastSubmitAt = 0
    /\ fmtIn = <<>>
    /\ fmtOut = NothingFormatted

\* ------------------------------------------------------- the collaborators

\* p_client->isConnected()
isConnected == clientState = "Connected"

\* p_client->isPendingState(): connecting or disconnecting
isPendingState == clientState \in {"Connecting", "Disconnecting"}

\* m_farm.start(...) as the configured miner type asks for it.
FarmStarts ==
    CASE m_minerType = "CL" -> <<"farm.start:opencl">>
      [] m_minerType = "CUDA" -> <<"farm.start:cuda">>
      [] m_minerType = "Mixed" -> <<"farm.start:cuda", "farm.start:opencl:mixed">>

\* ------------------------------------------------------------------ start()

Start ==
    /\ loopPc = "idle"
    /\ IF Len(m_connections) > 0
       THEN /\ m_running' = TRUE
            /\ loopPc' = "while"
            /\ calls' = <<>>
       ELSE /\ UNCHANGED <<m_running, loopPc>>
            /\ calls' = <<"warn:Manager has no connections defined!">>
    /\ UNCHANGED <<idxVars, dialLog, hashVars, cfgVars, workVars, submitVars, fmtVars,
                   grace_i, stopPc, clientState, clientConn, mining, now>>

\* ------------------------------------- addConnection(), clearConnections()

\* m_connections.push_back(conn)
addConnection(conn) ==
    /\ m_connections' = Append(m_connections, conn)
    /\ calls' = <<>>
    /\ UNCHANGED <<idxVars, dialLog, hashVars, m_maxConnectionAttempts, m_minerType,
                   workVars, submitVars, fmtVars, m_running, loopPc, grace_i, stopPc,
                   clientState, clientConn, mining, now>>

\* m_connections.clear(); m_farm.set_pool_addresses("", 0);
\* if (p_client && p_client->isConnected()) p_client->disconnect();
clearConnections ==
    /\ m_connections' = <<>>
    /\ IF isConnected
       THEN /\ clientState' = "Disconnecting"
            /\ calls' = <<"farm.set_pool_addresses", "client.disconnect">>
       ELSE /\ UNCHANGED clientState
            /\ calls' = <<"farm.set_pool_addresses">>
    /\ UNCHANGED <<idxVars, dialLog, hashVars, m_maxConnectionAttempts, m_minerType,
                   workVars, submitVars, fmtVars, m_running, loopPc, grace_i, stopPc,
                   clientConn, mining, now>>

\* --------------------------------------------------------------- workLoop()

\* while (m_running.load(...))
LoopWhile ==
    /\ loopPc = "while"
    /\ loopPc' = IF m_running THEN "chkPending" ELSE "done"
    /\ calls' = <<>>
    /\ UNCHANGED <<idxVars, dialLog, hashVars, cfgVars, workVars, submitVars, fmtVars,
                   m_running, grace_i, stopPc, clientState, clientConn, mining, now>>

\* LoopCheckPending that takes a Pending client for one that is not.
LoopCheckPending_Ignored ==
    /\ loopPc = "chkPending"
    /\ loopPc' = "chkConnected"
    /\ calls' = <<>>
    /\ UNCHANGED <<idxVars, dialLog, hashVars, cfgVars, workVars, submitVars, fmtVars,
                   m_running, grace_i, stopPc, clientState, clientConn, mining, now>>

\* if (!p_client->isPendingState())
LoopCheckPending ==
    /\ loopPc = "chkPending"
    /\ loopPc' = IF isPendingState THEN "hashrate" ELSE "chkConnected"
    /\ calls' = <<>>
    /\ UNCHANGED <<idxVars, dialLog, hashVars, cfgVars, workVars, submitVars, fmtVars,
                   m_running, grace_i, stopPc, clientState, clientConn, mining, now>>

\* LoopCheckConnected that takes a connected client for one that is not.
LoopCheckConnected_Ignored ==
    /\ loopPc = "chkConnected"
    /\ loopPc' = "rotate"
    /\ calls' = <<>>
    /\ UNCHANGED <<idxVars, dialLog, hashVars, cfgVars, workVars, submitVars, fmtVars,
                   m_running, grace_i, stopPc, clientState, clientConn, mining, now>>

\* if (!p_client->isConnected())
LoopCheckConnected ==
    /\ loopPc = "chkConnected"
    /\ loopPc' = IF isConnected THEN "hashrate" ELSE "rotate"
    /\ calls' = <<>>
    /\ UNCHANGED <<idxVars, dialLog, hashVars, cfgVars, workVars, submitVars, fmtVars,
                   m_running, grace_i, stopPc, clientState, clientConn, mining, now>>

\* LoopRotate with the threshold test off by one (> for >=).
LoopRotate_OffByOne ==
    /\ loopPc = "rotate"
    /\ IF m_connectionAttempt > m_maxConnectionAttempts
       THEN /\ m_connectionAttempt' = 0
            /\ m_activeConnectionIdx' =
                   IF m_activeConnectionIdx + 1 = Len(m_connections)
                   THEN 0 ELSE m_activeConnectionIdx + 1
            /\ IF mining
               THEN /\ mining' = FALSE
                    /\ grace_i' = GraceStart
                    /\ loopPc' = "grace"
                    /\ calls' = <<"farm.stop">>
               ELSE /\ UNCHANGED <<mining, grace_i>>
                    /\ loopPc' = "dial"
                    /\ calls' = <<>>
       ELSE /\ UNCHANGED <<m_connectionAttempt, m_activeConnectionIdx,
                           mining, grace_i>>
            /\ loopPc' = "dial"
            /\ calls' = <<>>
    /\ UNCHANGED <<hashVars, cfgVars, workVars, submitVars, fmtVars,
                   m_running, stopPc, clientState, clientConn, now>>

\* Rotate connections if above max attempts threshold; stop mining if
\* applicable as we're switching.
LoopRotate ==
    /\ loopPc = "rotate"
    /\ IF m_connectionAttempt >= m_maxConnectionAttempts
       THEN /\ m_connectionAttempt' = 0
            /\ m_activeConnectionIdx' =
                   IF m_activeConnectionIdx + 1 = Len(m_connections)
                   THEN 0 ELSE m_activeConnectionIdx + 1
            /\ IF mining
               THEN /\ mining' = FALSE
                    /\ grace_i' = GraceStart
                    /\ loopPc' = "grace"
                    /\ calls' = <<"farm.stop">>
               ELSE /\ UNCHANGED <<mining, grace_i>>
                    /\ loopPc' = "dial"
                    /\ calls' = <<>>
       ELSE /\ UNCHANGED <<m_connectionAttempt, m_activeConnectionIdx,
                           mining, grace_i>>
            /\ loopPc' = "dial"
            /\ calls' = <<>>
    /\ UNCHANGED <<hashVars, cfgVars, workVars, submitVars, fmtVars,
                   m_running, stopPc, clientState, clientConn, now>>

\* for (auto i = 4; --i; this_thread::sleep_for(chrono::seconds(1))) { cnote ... }
LoopGrace ==
    /\ loopPc = "grace"
    /\ grace_i' = grace_i - 1
    /\ IF grace_i - 1 # 0
       THEN /\ loopPc' = "grace"
            /\ calls' = <<"log:Retrying in", "sleep">>
       ELSE /\ loopPc' = "dial"
            /\ calls' = <<>>
    /\ UNCHANGED <<idxVars, dialLog, hashVars, cfgVars, workVars, submitVars, fmtVars,
                   m_running, stopPc, clientState, clientConn, mining, now>>

\* LoopDial without the test for the sentinel: every endpoint is dialed.
LoopDial_NoSentinelTest ==
    /\ loopPc = "dial"
    /\ m_connectionAttempt' = m_connectionAttempt + 1
    /\ clientConn' \in ActiveConnection
    /\ clientState' = "Connecting"
    /\ calls' = <<"client.setConnection", "farm.set_pool_addresses", "client.connect">>
    /\ loopPc' = "hashrate"
    /\ UNCHANGED <<mining, m_running>>
    /\ UNCHANGED <<m_activeConnectionIdx, hashVars, cfgVars, workVars, submitVars,
                   fmtVars, grace_i, stopPc, now>>

\* LoopDial that leaves the running flag set when it reaches the sentinel.
LoopDial_KeepsRunning ==
    /\ loopPc = "dial"
    /\ \E conn \in ActiveConnection :
       IF Host(conn) # SentinelHost
       THEN /\ m_connectionAttempt' = m_connectionAttempt + 1
            /\ clientConn' = conn
            /\ clientState' = "Connecting"
            /\ calls' = <<"client.setConnection", "farm.set_pool_addresses",
                          "client.connect">>
            /\ loopPc' = "hashrate"
            /\ UNCHANGED mining
       ELSE /\ mining' = FALSE
            /\ calls' = IF mining THEN <<"farm.stop">> ELSE <<>>
            /\ loopPc' = "while"
            /\ UNCHANGED <<m_connectionAttempt, clientConn, clientState>>
    /\ UNCHANGED <<m_running, m_activeConnectionIdx, hashVars, cfgVars, workVars,
                   submitVars, fmtVars, grace_i, stopPc, now>>

\* if (m_connections[m_activeConnectionIdx].Host() != "exit") { dial } else
\* { no more failover connections }.  dialLog is left to the observer below.
LoopDial ==
    /\ loopPc = "dial"
    /\ \E conn \in ActiveConnection :
       IF Host(conn) # SentinelHost
       THEN /\ m_connectionAttempt' = m_connectionAttempt + 1
            /\ clientConn' = conn
            /\ clientState' = "Connecting"
            /\ calls' = <<"client.setConnection", "farm.set_pool_addresses",
                          "client.connect">>
            /\ loopPc' = "hashrate"
            /\ UNCHANGED <<mining, m_running>>
       ELSE /\ mining' = FALSE
            /\ calls' = IF mining THEN <<"farm.stop">> ELSE <<>>
            /\ m_running' = FALSE
            /\ loopPc' = "while"
            /\ UNCHANGED <<m_connectionAttempt, clientConn, clientState>>
    /\ UNCHANGED <<m_activeConnectionIdx, hashVars, cfgVars, workVars, submitVars,
                   fmtVars, grace_i, stopPc, now>>

\* The observer of connect(): logs the index each connect() call dials.
LogDial ==
    dialLog' = IF "client.connect" \in Range(calls') /\ Len(dialLog) < MaxDialLog
               THEN Append(dialLog, m_activeConnectionIdx')
               ELSE dialLog

\* LoopHashrate that reports when the counter reaches the interval.
LoopHashrate_AtInterval(rate) ==
    /\ loopPc = "hashrate"
    /\ IF m_hashrateReportingTimePassed + 1 >= HashrateReportingTime
       THEN /\ submittedHashrate' = HashrateString(rate)
            /\ reportedRate' = rate
            /\ m_hashrateReportingTimePassed' = 0
            /\ calls' = <<"client.submitHashrate", "sleep">>
       ELSE /\ m_hashrateReportingTimePassed' = m_hashrateReportingTimePassed + 1
            /\ UNCHANGED <<submittedHashrate, reportedRate>>
            /\ calls' = <<"sleep">>
    /\ loopPc' = "while"
    /\ UNCHANGED <<idxVars, cfgVars, workVars, submitVars, fmtVars, m_running,
                   grace_i, stopPc, clientState, clientConn, mining, now>>

\* Hashrate reporting, then this_thread::sleep_for(chrono::seconds(1)).
\* dialLog is left to the observers.
LoopHashrate(rate) ==
    /\ loopPc = "hashrate"
    /\ IF m_hashrateReportingTimePassed + 1 > HashrateReportingTime
       THEN /\ submittedHashrate' = HashrateString(rate)
            /\ reportedRate' = rate
            /\ m_hashrateReportingTimePassed' = 0
            /\ calls' = <<"client.submitHashrate", "sleep">>
       ELSE /\ m_hashrateReportingTimePassed' = m_hashrateReportingTimePassed + 1
            /\ UNCHANGED <<submittedHashrate, reportedRate>>
            /\ calls' = <<"sleep">>
    /\ loopPc' = "while"
    /\ UNCHANGED <<idxVars, cfgVars, workVars, submitVars, fmtVars, m_running,
                   grace_i, stopPc, clientState, clientConn, mining, now>>

\* ------------------------------------------------------------------- stop()

\* if (m_running.load(...)) { m_running.store(false, ...);
StopBegin ==
    /\ stopPc = "idle"
    /\ IF m_running
       THEN /\ m_running' = FALSE
            /\ stopPc' = "disconnect"
            /\ calls' = <<"log:Shutting down...">>
       ELSE /\ UNCHANGED <<m_running, stopPc>>
            /\ calls' = <<>>
    /\ UNCHANGED <<idxVars, dialLog, hashVars, cfgVars, workVars, submitVars, fmtVars,
                   loopPc, grace_i, clientState, clientConn, mining, now>>

\* if (p_client->isConnected()) p_client->disconnect();
StopDisconnect ==
    /\ stopPc = "disconnect"
    /\ IF isConnected
       THEN /\ clientState' = "Disconnecting"
            /\ calls' = <<"client.disconnect">>
       ELSE /\ UNCHANGED clientState
            /\ calls' = <<>>
    /\ stopPc' = "farm"
    /\ UNCHANGED <<idxVars, dialLog, hashVars, cfgVars, workVars, submitVars, fmtVars,
                   m_running, loopPc, grace_i, clientConn, mining, now>>

\* if (m_farm.isMining()) { m_farm.stop(); }: with the farm stopped, stop()
\* is at "return", behind the call of m_farm.stop(); with no farm to stop it
\* has returned.
StopFarm ==
    /\ stopPc = "farm"
    /\ IF mining
       THEN /\ mining' = FALSE
            /\ calls' = <<"log:Shutting down miners...", "farm.stop">>
            /\ stopPc' = "return"
       ELSE /\ UNCHANGED mining
            /\ calls' = <<>>
            /\ stopPc' = "returned"
    /\ UNCHANGED <<idxVars, dialLog, hashVars, cfgVars, workVars, submitVars, fmtVars,
                   m_running, loopPc, grace_i, clientState, clientConn, now>>

\* stop() returns to its caller.
StopReturn ==
    /\ stopPc = "return"
    /\ stopPc' = "returned"
    /\ calls' = <<>>
    /\ UNCHANGED <<idxVars, dialLog, hashVars, cfgVars, workVars, submitVars, fmtVars,
                   m_running, loopPc, grace_i, clientState, clientConn, mining, now>>

\* ----------------------------------------------------------------- handlers
\* A handler says what it does to the orchestrator and the farm; the event
\* that invokes it says what happens to the client's state.

\* onConnected that starts the farm whether it is mining or not.
onConnected_AlwaysStarts ==
    /\ m_connectionAttempt' = 0
    /\ mining' = TRUE
    /\ calls' = <<"log:Connected">> \o FarmStarts
    /\ UNCHANGED <<m_activeConnectionIdx, hashVars,
                   cfgVars, workVars, submitVars, fmtVars, m_running, loopPc,
                   grace_i, stopPc, clientConn, now>>

\* p_client->onConnected.  dialLog is left to the observers.
onConnected ==
    /\ m_connectionAttempt' = 0
    /\ IF ~mining
       THEN /\ mining' = TRUE
            /\ calls' = <<"log:Connected">> \o FarmStarts
       ELSE /\ UNCHANGED mining
            /\ calls' = <<"log:Connected">>
    /\ UNCHANGED <<m_activeConnectionIdx, hashVars,
                   cfgVars, workVars, submitVars, fmtVars, m_running, loopPc,
                   grace_i, stopPc, clientConn, now>>

\* onDisconnected that stops the farm.
onDisconnected_StopsFarm ==
    /\ mining' = FALSE
    /\ calls' = <<"log:Disconnected">> \o (IF mining THEN <<"farm.stop">> ELSE <<>>)
    /\ UNCHANGED <<idxVars, dialLog, hashVars, cfgVars, workVars, submitVars, fmtVars,
                   m_running, loopPc, grace_i, stopPc, clientConn, now>>

\* p_client->onDisconnected: logs, and does not stop mining.
onDisconnected ==
    /\ calls' = <<"log:Disconnected">>
    /\ UNCHANGED <<idxVars, dialLog, hashVars, cfgVars, workVars, submitVars, fmtVars,
                   m_running, loopPc, grace_i, stopPc, clientConn, mining, now>>

\* onMinerRestart that starts the farm and then stops it if it was mining.
onMinerRestart_StartFirst ==
    /\ mining' = ~mining
    /\ calls' = FarmStarts \o (IF mining THEN <<"farm.stop">> ELSE <<>>)
    /\ UNCHANGED <<idxVars, dialLog, hashVars, cfgVars, workVars, submitVars, fmtVars,
                   m_running, loopPc, grace_i, stopPc, clientState, clientConn, now>>

\* m_farm.onMinerRestart
onMinerRestart ==
    /\ mining' = TRUE
    /\ calls' = (IF mining THEN <<"farm.stop">> ELSE <<>>) \o FarmStarts
    /\ UNCHANGED <<idxVars, dialLog, hashVars, cfgVars, workVars, submitVars, fmtVars,
                   m_running, loopPc, grace_i, stopPc, clientState, clientConn, now>>

\* IsDuplicate that never finds the header.
IsDuplicate_Never(h) == FALSE

\* for (auto h : m_headers) if (h == wp.header) { ... return; }
IsDuplicate(h) == \E i \in 1..Len(m_headers) : m_headers[i] = h

\* TrimHeaders that drops the newest header (pop_back for pop_front).
TrimHeaders_PopBack(hs) ==
    IF Len(hs) > MaxHeaders THEN SubSeq(hs, 1, MaxHeaders) ELSE hs

RECURSIVE TrimHeaders(_)
\* while (m_headers.size() > 4) m_headers.pop_front();
TrimHeaders(hs) == IF Len(hs) > MaxHeaders THEN TrimHeaders(Tail(hs)) ELSE hs

\* double(dividend / divisor): the difficulty of boundary b.  Boundaries are
\* named 1, 2, ...; boundary b stands for one whose quotient 2^256 / b has
\* the base-1000 digits b, 500, ..., 500 (b digits).
DifficultyOf(b) == <<b>> \o [k \in 1..(b - 1) |-> 500]

\* BoundaryChanged that finds every boundary new.
BoundaryChanged_Always(b) == TRUE

\* if (wp.boundary != m_lastBoundary)
BoundaryChanged(b) == b # m_lastBoundary

\* p_client->onWorkReceived
onWorkReceived(h, b) ==
    IF IsDuplicate(h)
    THEN /\ calls' = <<"warn:Duplicate job discarded">>
         /\ UNCHANGED <<idxVars, dialLog, hashVars, cfgVars, workVars, submitVars,
                        fmtVars, m_running, loopPc, grace_i, stopPc, clientConn,
                        mining, now>>
    ELSE /\ m_headers' = TrimHeaders(Append(m_headers, h))
         /\ IF BoundaryChanged(b)
            THEN /\ m_lastBoundary' = b
                 /\ fmtIn' = DifficultyOf(b)
                 /\ fmtOut' = diffToDisplay(DifficultyOf(b))
                 /\ calls' = <<"log:New job", "log:New pool difficulty", "farm.setWork">>
            ELSE /\ UNCHANGED <<m_lastBoundary, fmtVars>>
                 /\ calls' = <<"log:New job", "farm.setWork">>
         /\ setWorkLog' = Append(setWorkLog, h)
         /\ UNCHANGED <<idxVars, dialLog, hashVars, cfgVars, submitVars, m_running,
                        loopPc, grace_i, stopPc, clientConn, mining, now>>

\* duration_cast<milliseconds>: truncates towards zero.
DurationCastMs(d) ==
    IF d >= 0 THEN d \div TicksPerMs ELSE -((-d) \div TicksPerMs)

\* ElapsedMs with the operands of the subtraction exchanged.
ElapsedMs_Swapped == DurationCastMs(m_submit_time - now)

\* duration_cast<milliseconds>(steady_clock::now() - m_submit_time)
ElapsedMs == DurationCastMs(now - m_submit_time)

\* p_client->onSolutionAccepted
onSolutionAccepted(stale) ==
    /\ latency' = ElapsedMs
    /\ calls' = <<IF stale THEN "log:Accepted(stale)" ELSE "log:Accepted",
                  "farm.acceptedSolution">>
    /\ UNCHANGED <<idxVars, dialLog, hashVars, cfgVars, workVars, m_submit_time,
                   lastSubmitAt, fmtVars, m_running, loopPc, grace_i, stopPc,
                   clientConn, mining, now>>

\* p_client->onSolutionRejected
onSolutionRejected(stale) ==
    /\ latency' = ElapsedMs
    /\ calls' = <<IF stale THEN "warn:Rejected(stale)" ELSE "warn:Rejected",
                  "farm.rejectedSolution">>
    /\ UNCHANGED <<idxVars, dialLog, hashVars, cfgVars, workVars, m_submit_time,
                   lastSubmitAt, fmtVars, m_running, loopPc, grace_i, stopPc,
                   clientConn, mining, now>>

\* onSolutionFound without the test of the connection.
onSolutionFound_NoConnectedTest(stale) ==
    /\ m_submit_time' = now
    /\ calls' = <<IF stale THEN "log:Stale nonce" ELSE "log:Nonce",
                  "client.submitSolution">>
    /\ UNCHANGED <<idxVars, dialLog, hashVars, cfgVars, workVars, latency, fmtVars,
                   m_running, loopPc, grace_i, stopPc, clientConn, mining, now>>

\* m_farm.onSolutionFound.  lastSubmitAt is left to the observer below.
onSolutionFound(stale) ==
    /\ IF isConnected
       THEN /\ m_submit_time' = now
            /\ calls' = <<IF stale THEN "log:Stale nonce" ELSE "log:Nonce",
                          "client.submitSolution">>
       ELSE /\ UNCHANGED m_submit_time
            /\ calls' = <<"log:Nonce wasted. Waiting for connection ...">>
    /\ UNCHANGED <<idxVars, dialLog, hashVars, cfgVars, workVars, latency, fmtVars,
                   m_running, loopPc, grace_i, stopPc, clientConn, mining, now>>

\* The observer of submitSolution: the clock at the latest call.
LogSubmit ==
    lastSubmitAt' = IF "client.submitSolution" \in Range(calls') THEN now
                    ELSE lastSubmitAt

\* ------------------------------------------------------------------- events

\* The client's connection attempt succeeds.
ClientConnected ==
    /\ clientState = "Connecting"
    /\ clientState' = "Connected"
    /\ onConnected
    /\ UNCHANGED dialLog

\* The attempt fails, the connection drops, or a disconnect() completes.
ClientDisconnected ==
    /\ clientState \in {"Connecting", "Connected", "Disconnecting"}
    /\ clientState' = "Disconnected"
    /\ onDisconnected

\* The farm asks for a restart of the miners.
MinerRestart == onMinerRestart

\* The connected client delivers a work package.
WorkReceived(h, b) ==
    /\ isConnected
    /\ UNCHANGED clientState
    /\ onWorkReceived(h, b)

\* The pool answers a submission.
SolutionAccepted(stale) ==
    /\ isConnected
    /\ UNCHANGED clientState
    /\ onSolutionAccepted(stale)

SolutionRejected(stale) ==
    /\ isConnected
    /\ UNCHANGED clientState
    /\ onSolutionRejected(stale)

\* A miner of the running farm finds a solution.
SolutionFound(stale) ==
    /\ mining
    /\ UNCHANGED clientState
    /\ onSolutionFound(stale)
    /\ LogSubmit

\* The steady clock advances.
Tick ==
    /\ now < MaxTime
    /\ now' = now + 1
    /\ calls' = <<>>
    /\ UNCHANGED <<idxVars, dialLog, hashVars, cfgVars, workVars, submitVars,
                   fmtVars, m_running, loopPc, grace_i, stopPc, clientState,
                   clientConn, mining>>

\* diffToDisplay called once, with difficulty d.
FormatDifficulty(d) ==
    /\ fmtOut = NothingFormatted
    /\ fmtIn' = d
    /\ fmtOut' = diffToDisplay(d)
    /\ UNCHANGED <<idxVars, dialLog, hashVars, cfgVars, workVars, submitVars,
                   m_running, loopPc, grace_i, stopPc, clientState, clientConn,
                   mining, now, calls>>

\* ----------------------------------------------------------- specifications

LoopRates == {1}

LoopStep ==
    \/ LoopWhile
    \/ LoopCheckPending
    \/ LoopCheckConnected
    \/ LoopRotate /\ UNCHANGED dialLog
    \/ LoopGrace
    \/ LoopDial /\ UNCHANGED dialLog
    \/ \E rate \in LoopRates : LoopHashrate(rate) /\ UNCHANGED dialLog

StopStep ==
    \/ StopBegin
    \/ StopDisconnect
    \/ StopFarm
    \/ StopReturn

Next ==
    \/ Start
    \/ LoopStep
    \/ StopStep
    \/ ClientConnected
    \/ ClientDisconnected
    \/ MinerRestart

Spec == Init /\ [][Next]_vars

\* ------------------------------------------- every connection attempt fails
\* The loop against a client none of whose attempts succeeds: an attempt
\* ends Pending and then fails.  The farm may have been restarted (and so be
\* mining) before the loop starts.

FailLoopStep ==
    \/ LoopWhile
    \/ LoopCheckPending
    \/ LoopCheckConnected
    \/ LoopRotate /\ UNCHANGED dialLog
    \/ LoopGrace
    \/ LoopDial /\ LogDial
    \/ \E rate \in LoopRates : LoopHashrate(rate) /\ UNCHANGED dialLog

FailNext ==
    \/ Start
    \/ loopPc = "idle" /\ MinerRestart
    \/ FailLoopStep
    \/ ClientDisconnected

\* The loop's thread keeps running, and the client does not stay Pending.
FailSpec ==
    /\ Init
    /\ [][FailNext]_vars
    /\ WF_vars(FailLoopStep)
    /\ WF_vars(ClientDisconnected)

NumConnections == Len(m_connections)

HasSentinel == \E j \in 1..NumConnections : Host(m_connections[j]) = SentinelHost

\* The number of ordinary endpoints before the first sentinel.
SentinelIndex ==
    (CHOOSE j \in 1..NumConnections :
        /\ Host(m_connections[j]) = SentinelHost
        /\ \A i \in 1..(j - 1) : Host(m_connections[i]) # SentinelHost) - 1

\* A step of the loop's rotation block in which the threshold was reached.
IsRotation ==
    /\ loopPc = "rotate"
    /\ loopPc' # "rotate"
    /\ m_connectionAttempt >= m_maxConnectionAttempts

\* C1: when every connection attempt fails, connect() is called exactly
\* m_maxConnectionAttempts times on an endpoint before the active index
\* advances, the endpoints are dialed in insertion order and the index wraps
\* to 0 after the last one: the j-th connect() dials index
\* ((j-1) div A) mod N.  The index moves only in a rotation, which happens
\* with the attempt counter at exactly A and leaves it at zero.
C1_ExactlyAAttemptsThenRotate ==
    /\ [](\A j \in 1..Len(dialLog) :
             dialLog[j] = ((j - 1) \div m_maxConnectionAttempts) % NumConnections)
    /\ [][/\ IsRotation =>
               /\ m_connectionAttempt = m_maxConnectionAttempts
               /\ m_connectionAttempt' = 0
               /\ m_activeConnectionIdx' = (m_activeConnectionIdx + 1) % NumConnections
          /\ m_activeConnectionIdx' # m_activeConnectionIdx => IsRotation]_vars

\* The loop went through both endpoints of a two-endpoint list, two attempts
\* each, wrapped to the first and dialed it again.
C1_Witness ==
    /\ m_connections = <<PoolA, PoolB>>
    /\ m_maxConnectionAttempts = 2
    /\ dialLog = <<0, 0, 1, 1, 0>>
    /\ m_activeConnectionIdx = 0

\* C3: with the sentinel after k ordinary endpoints, every attempt failing
\* and the client not Pending forever, the started loop terminates; when it
\* has, the running flag is false, the farm is not mining, the active
\* endpoint is the sentinel and exactly k * A connect() calls were made.
C3_TerminatesAtSentinel ==
    /\ (HasSentinel /\ loopPc # "idle") ~> (loopPc = "done")
    /\ [](loopPc = "done" =>
             /\ ~m_running
             /\ ~mining
             /\ HasSentinel
             /\ m_activeConnectionIdx = SentinelIndex
             /\ Len(dialLog) = SentinelIndex * m_maxConnectionAttempts)

\* The loop ended at the sentinel behind two endpoints after 2 * 2 failed
\* attempts, having stopped a farm that was mining.
C3_Witness ==
    /\ loopPc = "done"
    /\ m_connections = <<PoolA, PoolB, Exit>>
    /\ m_maxConnectionAttempts = 2
    /\ dialLog = <<0, 0, 1, 1>>
    /\ ~m_running
    /\ ~mining

\* C2: the sentinel endpoint is never dialed: the endpoint given to the
\* client (setConnection, then connect) is never the sentinel, and a step
\* that calls connect() leaves an active endpoint that is not the sentinel
\* and is the one it dialed.
C2_SentinelNeverDialed ==
    /\ Host(clientConn) # SentinelHost
    /\ "client.connect" \in Range(calls) =>
           /\ Host(Current) # SentinelHost
           /\ clientConn = Current

\* The loop has rotated onto a sentinel that is not the first endpoint; the
\* client was last given an ordinary endpoint and is disconnected, and the
\* farm is mining.
C2_Witness ==
    /\ m_connections = <<PoolA, PoolB, Exit>>
    /\ m_activeConnectionIdx = 2
    /\ Host(Current) = SentinelHost
    /\ loopPc = "dial"
    /\ clientConn = PoolB
    /\ clientState = "Disconnected"
    /\ mining

\* ------------------------------------------------------- work notifications
\* One endpoint, and the handler invoked with any sequence of job headers
\* and boundaries.

WorkInit ==
    /\ Init
    /\ m_connections = <<PoolA>>
    /\ m_maxConnectionAttempts = 1
    /\ m_minerType = "CL"

Jobs == 1..MaxJobs

\* Two boundaries, so that a notification can change the boundary or keep it.
Boundaries == {1, 2}

WorkNext ==
    \E h \in Jobs, b \in Boundaries :
        /\ Len(setWorkLog) < MaxForwarded
        /\ UNCHANGED clientState
        /\ onWorkReceived(h, b)

WorkSpec == WorkInit /\ [][WorkNext]_vars

\* A step in which the handler is invoked with header h and boundary b.
IsWorkNotification(h, b) == UNCHANGED clientState /\ onWorkReceived(h, b)

\* C4 as stated: of the work packages forwarded to the farm no two carry the
\* same job header (two notifications with the same header reach setWork
\* once).
C4_Original_ForwardedOnce ==
    \A i, j \in 1..Len(setWorkLog) : i # j => setWorkLog[i] # setWorkLog[j]

\* C4, amended: a notification whose header is in the recent-job history is
\* discarded (nothing forwarded, nothing inserted), one whose header is not
\* is forwarded and inserted, the test being made on the history as it was
\* before; so two forwarded packages with the same header have at least
\* MaxHeaders other packages forwarded between them.
C4_DuplicateInHistoryDiscarded ==
    /\ [](\A i, j \in 1..Len(setWorkLog) :
             (i < j /\ setWorkLog[i] = setWorkLog[j]) => j - i > MaxHeaders)
    /\ [][\A h \in Jobs, b \in Boundaries :
             IsWorkNotification(h, b) =>
                 IF h \in Range(m_headers)
                 THEN /\ setWorkLog' = setWorkLog
                      /\ m_headers' = m_headers
                      /\ "farm.setWork" \notin Range(calls')
                 ELSE /\ setWorkLog' = Append(setWorkLog, h)
                      /\ h \in Range(m_headers')]_vars

\* A second notification of header 2 has just been discarded: two packages
\* were forwarded for three notifications.
C4_Witness ==
    /\ setWorkLog = <<1, 2>>
    /\ m_headers = <<1, 2>>
    /\ calls = <<"warn:Duplicate job discarded">>

\* C5: the recent-job history holds at most MaxHeaders headers, all
\* distinct, and is the last min(MaxHeaders, k) of the k headers forwarded to
\* the farm, in order; a header never forwarded before is forwarded, and with
\* the history full it evicts exactly the oldest entry.
C5_HistoryIsLastFourForwarded ==
    /\ [](LET k == Len(setWorkLog)
              n == Min(MaxHeaders, k)
          IN  /\ Len(m_headers) <= MaxHeaders
              /\ \A i, j \in 1..Len(m_headers) : i # j => m_headers[i] # m_headers[j]
              /\ m_headers = SubSeq(setWorkLog, k - n + 1, k))
    /\ [][\A h \in Jobs, b \in Boundaries :
             (IsWorkNotification(h, b) /\ h \notin Range(setWorkLog)) =>
                 /\ setWorkLog' = Append(setWorkLog, h)
                 /\ Len(m_headers) = MaxHeaders =>
                        m_headers' = Append(Tail(m_headers), h)
                 /\ Len(m_headers) < MaxHeaders =>
                        m_headers' = Append(m_headers, h)]_vars

\* Five distinct headers were forwarded and the fifth evicted the first.
C5_Witness ==
    /\ setWorkLog = <<1, 2, 3, 4, 5>>
    /\ m_headers = <<2, 3, 4, 5>>

\* -------------------------------------------------- solutions and answers
\* One endpoint; the loop, stop() and the client's connection events, with
\* the farm's solutions, the pool's answers and the clock.

SubmitInit ==
    /\ Init
    /\ m_connections = <<PoolA>>
    /\ m_maxConnectionAttempts = 1
    /\ m_minerType = "CL"

SubmitNext ==
    \/ Start
    \/ LoopStep
    \/ StopStep
    \/ ClientConnected
    \/ ClientDisconnected
    \/ \E stale \in BOOLEAN : SolutionFound(stale)
    \/ \E stale \in BOOLEAN : SolutionAccepted(stale)
    \/ \E stale \in BOOLEAN : SolutionRejected(stale)
    \/ Tick

SubmitSpec == SubmitInit /\ [][SubmitNext]_vars

\* C6: a solution found while the client is not connected is logged as
\* discarded, once, and nothing else: no submitSolution, no new submission
\* time.  submitSolution is called, and the submission time stamped, only by
\* a solution found while the client is connected: no later step (a
\* reconnect, a tick of the loop) submits anything kept back.
C6_DisconnectedSolutionDiscarded ==
    /\ []("client.submitSolution" \in Range(calls) => isConnected)
    /\ [][/\ \A stale \in BOOLEAN :
               (SolutionFound(stale) /\ ~isConnected) =>
                   /\ calls' = <<"log:Nonce wasted. Waiting for connection ...">>
                   /\ m_submit_time' = m_submit_time
                   /\ lastSubmitAt' = lastSubmitAt
          /\ ("client.submitSolution" \in Range(calls')
                \/ m_submit_time' # m_submit_time) =>
                 /\ isConnected
                 /\ \E stale \in BOOLEAN : SolutionFound(stale)]_vars

\* A solution was submitted at time 1 while connected; the connection went,
\* and a solution found after that has just been logged as discarded.
C6_Witness ==
    /\ calls = <<"log:Nonce wasted. Waiting for connection ...">>
    /\ clientState = "Disconnected"
    /\ mining
    /\ lastSubmitAt = 1
    /\ m_submit_time = 1
    /\ now = 3

\* C8: the latency an accept or reject handler computes is the clock at the
\* event less the clock at the latest submitSolution call, in whole
\* milliseconds, and is not negative; the handler notifies the farm's
\* accounting and leaves the control state as it is.
C8_LatencyNonNegative ==
    /\ [](latency >= 0)
    /\ [][\A stale \in BOOLEAN :
             (SolutionAccepted(stale) \/ SolutionRejected(stale)) =>
                 /\ now >= lastSubmitAt
                 /\ latency' = DurationCastMs(now - lastSubmitAt)
                 /\ \/ "farm.acceptedSolution" \in Range(calls')
                    \/ "farm.rejectedSolution" \in Range(calls')
                 /\ UNCHANGED <<m_running, m_activeConnectionIdx, m_connectionAttempt,
                                mining, loopPc, stopPc, clientState>>]_vars

\* A solution submitted at time 1 was accepted at time 4: one whole
\* millisecond of the one and a half.
C8_Witness ==
    /\ "farm.acceptedSolution" \in Range(calls)
    /\ lastSubmitAt = 1
    /\ now = 4
    /\ latency = DurationCastMs(3)
    /\ latency > 0

\* ------------------------------------------------- stop() and work packages
\* One endpoint; the loop, stop() and the client's events, work included.

StopInit ==
    /\ Init
    /\ m_connections = <<PoolA>>
    /\ m_maxConnectionAttempts = 1
    /\ m_minerType = "CL"

StopNext ==
    \/ Start
    \/ LoopStep
    \/ StopStep
    \/ ClientConnected
    \/ ClientDisconnected
    \/ \E h \in 1..2 : WorkReceived(h, 1)

StopSpec == StopInit /\ [][StopNext]_vars

\* The order of stop(): the running flag is cleared first, then the client
\* disconnected if it is connected, then the farm stopped if it is mining;
\* and the loop, once at its test with the flag cleared, leaves.
StopOrder ==
    [][/\ (stopPc = "idle" /\ stopPc' # "idle") => (m_running /\ ~m_running')
       /\ (stopPc = "disconnect" /\ stopPc' # "disconnect") =>
              /\ ~m_running
              /\ isConnected => clientState' = "Disconnecting"
              /\ mining' = mining
       /\ (stopPc = "farm" /\ stopPc' # "farm") =>
              /\ ~mining'
              /\ clientState' = clientState
       /\ (loopPc = "while" /\ ~m_running) => loopPc' \in {"while", "done"}]_vars

\* C7 as stated: stop() clears the flag, disconnects, stops the farm, in that
\* order, and from the farm's stop to the return of stop() no work package
\* is forwarded to the farm.
C7_Original_NoWorkDuringTeardown ==
    /\ StopOrder
    /\ [][stopPc = "return" => setWorkLog' = setWorkLog]_vars

\* ------------------------------------------------------- difficulty display

Digits1000 == {0, 1, 2, 999}

\* The difficulties of up to MaxDigits base-1000 digits over Digits1000.
DifficultyInputs ==
    UNION {{d \in [1..n -> Digits1000] : d[1] # 0} : n \in 1..MaxDigits}

DiffInit ==
    /\ Init
    /\ m_connections = <<PoolA>>
    /\ m_maxConnectionAttempts = 1
    /\ m_minerType = "CL"

DiffNext == \E d \in DifficultyInputs : FormatDifficulty(d)

DiffSpec == DiffInit /\ [][DiffNext]_vars

\* D > 1000^e, for the difficulty with digits d
GreaterThanPow1000(d, e) ==
    \/ Len(d) > e + 1
    \/ /\ Len(d) = e + 1
       /\ \/ d[1] > 1
          \/ \E j \in 2..Len(d) : d[j] > 0

\* The unit index as C9 has it: the number of k in 0..4 with D > 1000^(k+1).
ClaimedUnitIndex(d) == Cardinality({k \in 0..4 : GreaterThanPow1000(d, k + 1)})

\* C9 as stated: the unit shown is the one of index ClaimedUnitIndex, up to
\* petahashes.
C9_Original_UnitIndex ==
    fmtOut # NothingFormatted => fmtOut.unit = UnitNames[ClaimedUnitIndex(fmtIn) + 1]

\* What the code does: the unit index counts the k in 0..3 only, so the unit
\* is at most terahashes; 2,500,000 shows as 2.50 megahashes and 999 as
\* 999.00 hashes.
DisplayedUnit ==
    /\ fmtOut # NothingFormatted =>
           /\ fmtOut.unit =
                  UnitNames[Cardinality({k \in 0..3 : GreaterThanPow1000(fmtIn, k + 1)}) + 1]
           /\ fmtOut.unit # "petahashes"
    /\ diffToDisplay(<<2, 500, 0>>) = [whole |-> <<2>>, cents |-> 50, unit |-> "megahashes"]
    /\ diffToDisplay(<<999>>) = [whole |-> <<999>>, cents |-> 0, unit |-> "hashes"]

\* ---------------------------------------------------------- hashrate report
\* One endpoint whose attempts fail, and the farm reporting any rate.

Rates == (0..MaxRate) \cup {4095, 4096, 65535, 65536, 1048575, 16777216, 2147483647}

HashInit ==
    /\ Init
    /\ m_connections = <<PoolA>>
    /\ m_maxConnectionAttempts = 1
    /\ m_minerType = "CL"

HashNext ==
    \/ Start
    \/ LoopWhile
    \/ LoopCheckPending
    \/ LoopCheckConnected
    \/ LoopRotate /\ UNCHANGED dialLog
    \/ LoopDial /\ UNCHANGED dialLog
    \/ \E rate \in Rates : LoopHashrate(rate) /\ UNCHANGED dialLog
    \/ ClientDisconnected

HashSpec == HashInit /\ [][HashNext]_vars

DigitValue(c) == CHOOSE v \in 0..15 : HexDigits[v + 1] = c

RECURSIVE HexValue(_)
\* the number a string of hexadecimal characters writes, big-endian
HexValue(str) ==
    IF Len(str) = 0 THEN 0
    ELSE 16 * HexValue(SubSeq(str, 1, Len(str) - 1)) + DigitValue(str[Len(str)])

\* C10: the string passed to submitHashrate is "0x" and then exactly
\* HashrateWidth hexadecimal characters that write the reported rate,
\* big-endian and padded with '0' on the left: all '0' for rate 0, and '0's
\* and a final '1' for rate 1.
C10_HashrateString ==
    submittedHashrate # <<>> =>
        LET hex == SubSeq(submittedHashrate, 3, Len(submittedHashrate))
        IN  /\ Len(submittedHashrate) = HashrateWidth + 2
            /\ submittedHashrate[1] = "0"
            /\ submittedHashrate[2] = "x"
            /\ \A i \in 1..Len(hex) : hex[i] \in Range(HexDigits)
            /\ HexValue(hex) = reportedRate
            /\ reportedRate = 0 => \A i \in 1..HashrateWidth : hex[i] = "0"
            /\ reportedRate = 1 =>
                   /\ \A i \in 1..(HashrateWidth - 1) : hex[i] = "0"
                   /\ hex[HashrateWidth] = "1"

\* Rate 256, bytes 01 00: the leading zero nibble is dropped and the string
\* ends 0...0100.
C10_Witness ==
    /\ reportedRate = 256
    /\ Len(submittedHashrate) = HashrateWidth + 2
    /\ SubSeq(submittedHashrate, HashrateWidth - 1, HashrateWidth + 2)
           = <<"0", "1", "0", "0">>

\* ------------------------------------------------- the endpoint list edited
\* The host process adds and clears endpoints at any time, before and after
\* start(); the loop and the client's connection events run alongside.

ConfigInit ==
    /\ Init
    /\ Len(m_connections) <= MaxConnections
    /\ m_maxConnectionAttempts = 1
    /\ m_minerType = "CL"

ConfigNext ==
    \/ Start
    \/ m_activeConnectionIdx < MaxIndex /\ LoopStep
    \/ ClientConnected
    \/ ClientDisconnected
    \/ \E conn \in Endpoints :
           Len(m_connections) < MaxConnections /\ addConnection(conn)
    \/ clearConnections

ConfigSpec == ConfigInit /\ [][ConfigNext]_vars

\* C11 as stated: the active index is a valid index into the endpoint list,
\* or the list is empty.
C11_Original_ActiveIndexValid ==
    Len(m_connections) = 0 \/ m_activeConnectionIdx < Len(m_connections)

\* What does hold: the index is valid for as long as the list is not
\* cleared, that is in every run of the loop over the list start() found.
ActiveIndexValidUnedited ==
    m_running => m_activeConnectionIdx < Len(m_connections)

\* ----------------------------------------------------- difficulty logging

\* C12: a notification logs the pool difficulty exactly when it is forwarded
\* (its header is not in the history) and its boundary differs from the
\* last-seen boundary, which then becomes that boundary, the difficulty
\* shown being the one of that boundary; a forwarded notification with the
\* boundary unchanged and a discarded duplicate log no difficulty and leave
\* the last-seen boundary as it is.
C12_DifficultyLoggedOnBoundaryChange ==
    [][\A h \in Jobs, b \in Boundaries :
          IsWorkNotification(h, b) =>
              IF h \notin Range(m_headers) /\ b # m_lastBoundary
              THEN /\ "log:New pool difficulty" \in Range(calls')
                   /\ "farm.setWork" \in Range(calls')
                   /\ m_lastBoundary' = b
                   /\ fmtIn' = DifficultyOf(b)
                   /\ fmtOut' = diffToDisplay(DifficultyOf(b))
              ELSE /\ "log:New pool difficulty" \notin Range(calls')
                   /\ m_lastBoundary' = m_lastBoundary
                   /\ UNCHANGED fmtVars]_vars

\* Job 1 came with boundary 2 and job 2 with the same boundary: job 2 has
\* just been forwarded with no difficulty logged.
C12_Witness ==
    /\ setWorkLog = <<1, 2>>
    /\ m_lastBoundary = 2
    /\ calls = <<"log:New job", "farm.setWork">>
    /\ fmtIn = DifficultyOf(2)

\* ------------------------------------------------------ connection events

\* The farm.start calls among the calls cs, in order.
StartsIn(cs) == SelectSeq(cs, LAMBDA x : x \in {"farm.start:opencl", "farm.start:cuda",
                                               "farm.start:opencl:mixed"})

\* C13: the Connected handler sets the attempt counter to zero and leaves the
\* active index; with the farm not mining it starts it, by one start for CL
\* and for CUDA and by two (cuda, then opencl) for Mixed; with the farm
\* mining it starts nothing; it never stops the farm, which is mining when
\* the handler returns.
C13_ConnectedHandler ==
    [][ClientConnected =>
          /\ m_connectionAttempt' = 0
          /\ m_activeConnectionIdx' = m_activeConnectionIdx
          /\ mining'
          /\ "farm.stop" \notin Range(calls')
          /\ StartsIn(calls') =
                 IF mining THEN <<>>
                 ELSE CASE m_minerType = "CL" -> <<"farm.start:opencl">>
                        [] m_minerType = "CUDA" -> <<"farm.start:cuda">>
                        [] m_minerType = "Mixed" ->
                               <<"farm.start:cuda", "farm.start:opencl:mixed">>]_vars

\* The client has just connected to the second endpoint, after a rotation,
\* and the handler has started both backends of a Mixed farm.
C13_Witness ==
    /\ calls = <<"log:Connected", "farm.start:cuda", "farm.start:opencl:mixed">>
    /\ clientState = "Connected"
    /\ m_minerType = "Mixed"
    /\ m_activeConnectionIdx = 1
    /\ m_connectionAttempt = 0
    /\ mining

\* --------------------------------------------- drops and fast reconnection
\* The loop against a client whose attempts succeed or fail and whose
\* connections drop.  Here dialLog is the history of the endpoint selection:
\* the index of each connect(), Established for a connection made, Rotated
\* for a rotation of the loop and FarmStopped behind it when the rotation
\* stopped the farm.

Established == -1

Rotated == -2

FarmStopped == -3

\* s, cut to the length the log is kept to
Logged(s) == SubSeq(s, 1, Min(Len(s), MaxDialLog))

\* The observer of the Connected event.
LogEstablished == dialLog' = Logged(Append(dialLog, Established))

\* The observer of the rotation block: the attempt counter was reset; the
\* farm was stopped.
LogRotate ==
    dialLog' = Logged(dialLog
                      \o (IF m_connectionAttempt > 0 /\ m_connectionAttempt' = 0
                          THEN <<Rotated>> ELSE <<>>)
                      \o (IF "farm.stop" \in Range(calls')
                          THEN <<FarmStopped>> ELSE <<>>))

DropInit ==
    /\ Init
    /\ m_minerType = "CL"

DropLoopStep ==
    \/ LoopWhile
    \/ LoopCheckPending
    \/ LoopCheckConnected
    \/ LoopRotate /\ LogRotate
    \/ LoopGrace
    \/ LoopDial /\ LogDial
    \/ \E rate \in LoopRates : LoopHashrate(rate) /\ UNCHANGED dialLog

ConnectionEstablished ==
    /\ clientState = "Connecting"
    /\ clientState' = "Connected"
    /\ onConnected
    /\ LogEstablished

DropNext ==
    \/ Start
    \/ DropLoopStep
    \/ ConnectionEstablished
    \/ ClientDisconnected

DropSpec == DropInit /\ [][DropNext]_vars

\* C14: the Disconnected handler only logs: the farm, the active index, the
\* attempt counter and the running flag are as before.  In the history of
\* the endpoint selection, the connect() after a connection was established
\* (and lost) dials the endpoint of that connection; two connect() calls
\* with no rotation between them dial the same endpoint; a rotation comes
\* only behind m_maxConnectionAttempts connect() calls on one endpoint with
\* no connection established among them; and the loop stops the farm only in
\* a rotation.
C14_DisconnectedHandlerFrame ==
    /\ [][ClientDisconnected =>
             /\ UNCHANGED <<m_activeConnectionIdx, m_connectionAttempt, m_running,
                            mining, m_connections>>
             /\ calls' = <<"log:Disconnected">>]_vars
    /\ [](\A i \in 1..Len(dialLog) :
             /\ dialLog[i] = Established =>
                    /\ i > 1
                    /\ dialLog[i - 1] >= 0
                    /\ i < Len(dialLog) => dialLog[i + 1] = dialLog[i - 1]
             /\ (dialLog[i] >= 0 /\ i < Len(dialLog) /\ dialLog[i + 1] >= 0) =>
                    dialLog[i + 1] = dialLog[i]
             /\ dialLog[i] = Rotated =>
                    /\ i > m_maxConnectionAttempts
                    /\ \A k \in 1..m_maxConnectionAttempts :
                           /\ dialLog[i - k] >= 0
                           /\ dialLog[i - k] = dialLog[i - 1]
             /\ dialLog[i] = FarmStopped => (i > 1 /\ dialLog[i - 1] = Rotated))

\* Connected to the first of two endpoints, dropped, dialed it again twice
\* in vain, then rotated, stopping the farm, and dialed the second.
C14_Witness ==
    /\ m_connections = <<PoolA, PoolB>>
    /\ m_maxConnectionAttempts = 2
    /\ dialLog = <<0, Established, 0, 0, Rotated, FarmStopped, 1>>

\* ------------------------------------------------------------ Pending ticks

\* A step of the loop's thread.
IsLoopStep == loopPc # "idle" /\ loopPc' # loopPc

\* C15: a tick whose test of isPendingState() finds the client Pending goes
\* straight to the hashrate report, and from there to the end of the tick:
\* it calls neither setConnection nor connect, stops no farm, and leaves the
\* attempt counter, the active index, the running flag and the client as
\* they are.
C15_PendingTickNoAction ==
    [][/\ (IsLoopStep /\ loopPc = "chkPending" /\ isPendingState) =>
              /\ loopPc' = "hashrate"
              /\ calls' = <<>>
              /\ UNCHANGED <<m_connectionAttempt, m_activeConnectionIdx, m_running,
                             mining, clientConn, clientState>>
       /\ (IsLoopStep /\ loopPc = "hashrate") =>
              /\ loopPc' = "while"
              /\ Range(calls') \subseteq {"client.submitHashrate", "sleep"}
              /\ UNCHANGED <<m_connectionAttempt, m_activeConnectionIdx, m_running,
                             mining, clientConn, clientState>>]_vars

\* The first tick dialed the first endpoint; the second found the client
\* still connecting and has ended with the hashrate report, the attempt
\* counter still at 1.
C15_Witness ==
    /\ m_connections = <<PoolA, PoolB>>
    /\ m_maxConnectionAttempts = 2
    /\ clientState = "Connecting"
    /\ loopPc = "while"
    /\ stopPc = "idle"
    /\ ~mining
    /\ m_activeConnectionIdx = 0
    /\ m_connectionAttempt = 1
    /\ m_hashrateReportingTimePassed = 0
    /\ calls = <<"client.submitHashrate", "sleep">>

\* ----------------------------------------------------------- report pacing
\* Two endpoints, and a client whose attempts succeed or fail and whose
\* connections drop.  Here dialLog is the history of the ticks: for each
\* tick that reached its end, whether it called submitHashrate.

TickEnded == -4

Reported == -5

\* The observer of the end of a tick.
LogTick ==
    dialLog' = Logged(Append(dialLog,
                             IF "client.submitHashrate" \in Range(calls')
                             THEN Reported ELSE TickEnded))

PaceInit ==
    /\ Init
    /\ m_connections = <<PoolA, PoolB>>
    /\ m_maxConnectionAttempts = 1
    /\ m_minerType = "CL"

PaceLoopStep ==
    \/ LoopWhile
    \/ LoopCheckPending
    \/ LoopCheckConnected
    \/ LoopRotate /\ UNCHANGED dialLog
    \/ LoopGrace
    \/ LoopDial /\ UNCHANGED dialLog
    \/ \E rate \in LoopRates : LoopHashrate(rate) /\ LogTick

PaceNext ==
    \/ Start
    \/ PaceLoopStep
    \/ ClientConnected
    \/ ClientDisconnected

PaceSpec == PaceInit /\ [][PaceNext]_vars

\* C16: a tick that reaches its end advances the counter by one, and calls
\* submitHashrate exactly when the advanced counter exceeds
\* HashrateReportingTime, the counter then being zero; the counter is
\* within 0..HashrateReportingTime between ticks, and the ticks that report
\* are every (HashrateReportingTime + 1)-th, whatever the client's state.
C16_HashratePacing ==
    /\ [](m_hashrateReportingTimePassed \in 0..HashrateReportingTime)
    /\ [](\A i \in 1..Len(dialLog) :
             dialLog[i] = (IF i % (HashrateReportingTime + 1) = 0
                           THEN Reported ELSE TickEnded))
    /\ [][(IsLoopStep /\ loopPc = "hashrate") =>
             IF m_hashrateReportingTimePassed + 1 > HashrateReportingTime
             THEN /\ "client.submitHashrate" \in Range(calls')
                  /\ m_hashrateReportingTimePassed' = 0
             ELSE /\ "client.submitHashrate" \notin Range(calls')
                  /\ m_hashrateReportingTimePassed' = m_hashrateReportingTimePassed + 1]_vars
    /\ [][m_hashrateReportingTimePassed' # m_hashrateReportingTimePassed =>
             (IsLoopStep /\ loopPc = "hashrate")]_vars

\* Four ticks, the second and the fourth with a report, the client connected
\* by now.
C16_Witness ==
    /\ dialLog = <<TickEnded, Reported, TickEnded, Reported>>
    /\ clientState = "Connected"
    /\ m_hashrateReportingTimePassed = 0

\* ------------------------------------------------------------------ restart

\* C17: the RestartRequested handler stops the farm if it is mining and
\* then starts it as the miner type asks, the stop before every start; the
\* farm is mining when the handler returns, whatever it was and whatever the
\* client's state; the handler touches nothing else of the orchestrator.
C17_RestartStopsThenStarts ==
    [][MinerRestart =>
          /\ mining'
          /\ StartsIn(calls') =
                 CASE m_minerType = "CL" -> <<"farm.start:opencl">>
                   [] m_minerType = "CUDA" -> <<"farm.start:cuda">>
                   [] m_minerType = "Mixed" ->
                          <<"farm.start:cuda", "farm.start:opencl:mixed">>
          /\ calls' = (IF mining THEN <<"farm.stop">> ELSE <<>>) \o StartsIn(calls')
          /\ UNCHANGED <<m_activeConnectionIdx, m_connectionAttempt, m_running,
                         clientState, clientConn>>]_vars

\* A Mixed farm that was mining, with the client disconnected, has just been
\* stopped and started again.
C17_Witness ==
    /\ calls = <<"farm.stop", "farm.start:cuda", "farm.start:opencl:mixed">>
    /\ mining
    /\ m_running
    /\ clientState = "Disconnected"
    /\ m_connectionAttempt = 1

\* ----------------------------------------------------- the grace interval

\* A pass of the grace loop's test with the running flag cleared.
GraceStepFlagCleared == loopPc = "grace" /\ grace_i' # grace_i /\ ~m_running

\* C18 as stated: with the running flag cleared during the grace interval,
\* the loop ends the wait at its next test: it sleeps no further
\* sub-interval and does not go on to dial.
C18_Original_GraceInterruptible ==
    [][GraceStepFlagCleared =>
          /\ "sleep" \notin Range(calls')
          /\ loopPc' \notin {"grace", "dial"}]_vars

\* What the code does: the grace loop counts its three sub-intervals down
\* whatever the running flag, and goes on to the dial.
GraceRunsToEnd ==
    [][(loopPc = "grace" /\ grace_i' # grace_i) =>
          /\ grace_i' = grace_i - 1
          /\ IF grace_i > 1
             THEN loopPc' = "grace" /\ "sleep" \in Range(calls')
             ELSE loopPc' = "dial"]_vars

\* ------------------------------------------------- after the flag is cleared

\* The running flag was set by start() and has been cleared.
FlagCleared == loopPc # "idle" /\ ~m_running

\* C19 as stated: with the running flag cleared no step calls connect() or
\* starts the farm, and once stop() has returned and the loop has ended the
\* client is not connected and the farm is not mining.
C19_Original_QuiescentAfterClear ==
    /\ [][FlagCleared =>
             /\ "client.connect" \notin Range(calls')
             /\ StartsIn(calls') = <<>>]_vars
    /\ []((stopPc = "returned" /\ loopPc = "done") => (~isConnected /\ ~mining))

\* What does hold: the loop, once it has seen the flag cleared at its test,
\* does nothing more.
LoopEndsAtTest ==
    /\ [][(loopPc = "while" /\ ~m_running /\ IsLoopStep) => loopPc' = "done"]_vars
    /\ [][loopPc = "done" => (loopPc' = "done" /\ "client.connect" \notin Range(calls'))]_vars

\* ----------------------------------------- the loop and the Connected event

\* C20: with the loop and the client's connection events interleaved in
\* every way, connect() is called only on a client that is neither connected
\* nor Pending, and the attempt counter is zero for as long as the client is
\* connected: the loop's increment comes before the connect() it counts and
\* never after the Connected handler's reset.
C20_ConnectOnlyWhenIdle ==
    /\ [][("client.connect" \in Range(calls')) =>
             (~isConnected /\ ~isPendingState)]_vars
    /\ [](isConnected => m_connectionAttempt = 0)
    /\ [][(isConnected /\ m_connectionAttempt' # m_connectionAttempt) =>
             ~isConnected']_vars

\* The second attempt on the first endpoint succeeded and the loop has gone
\* round since: the client is connected and the counter, 2 at the second
\* connect(), is zero.
C20_Witness ==
    /\ m_maxConnectionAttempts = 2
    /\ dialLog = <<0, 0, Established>>
    /\ isConnected
    /\ m_connectionAttempt = 0
    /\ loopPc = "while"
    /\ m_hashrateReportingTimePassed = 1

====
